---------------------------- MODULE Spec2Model ----------------------------
(***************************************************************************)
(* mon-receiver: serial port => COBS/struct/CRC-32 decoder => InfluxDB.    *)
(*                                                                         *)
(* A model of src/receiver/receiver.py:                                    *)
(*   ProtocolParser  buffer, add_data, _parse_data, _unpack_data,          *)
(*                   _check_crc, _notify                                   *)
(*   InfluxWriter    queue, add_packet, the write thread (_write), run and *)
(*                   the connection-health thread (_maintain_connection,   *)
(*                   _try_connect)                                         *)
(* Bytes are the integers 0..255, byte strings are sequences of bytes.     *)
(***************************************************************************)
EXTENDS Integers, Sequences, FiniteSets, TLC

(***************************************************************************)
(* Bounds of the model (not program constants).                            *)
(***************************************************************************)
\* number of delimiter-terminated frames in an input stream of the parser
MaxFrames == 2
\* number of add_packet calls in BurstSpec
MaxBurst == 103
\* number of add_packet calls in UpSpec
MaxUp == 250
\* number of add_packet calls in OutageSpec
MaxOutage == 602
\* number of add_packet calls in LiveSpec
MaxLive == 101
\* number of Measurements the caller of add_packet lets wait in the queue
\* (UpSpec, OutageSpec, LiveSpec)
MaxLag == 2
\* number of connection-health threads started in HealthSpec
MaxThreads == 2

(***************************************************************************)
(* Byte-string helpers (Python bytes operations used by the parser).       *)
(***************************************************************************)
Byte == 0..255

\* F(v) with v evaluated once, before F is applied to it
With(v, F(_)) == CHOOSE r \in { F(x) : x \in {v} } : TRUE

\* s[a..b], empty when a > b (Python slice s[a-1:b])
Slice(s, a, b) == IF a > b THEN <<>> ELSE SubSeq(s, a, b)

\* x in s (Python: b"\x00" in self.buffer)
Contains(s, x) == \E i \in 1..Len(s) : s[i] = x

\* index of the first x in s, Len(s)+1 when there is none
RECURSIVE IndexFrom(_, _, _)
IndexFrom(s, x, i) ==
    IF i > Len(s) THEN i
    ELSE IF s[i] = x THEN i
    ELSE IndexFrom(s, x, i + 1)

\* bytes.split(sep) without maxsplit: every piece between separators
RECURSIVE Split(_, _)
Split(s, sep) ==
    With(IndexFrom(s, sep, 1), LAMBDA i :
        IF i > Len(s) THEN <<s>>
        ELSE With(Slice(s, i + 1, Len(s)), LAMBDA rest :
                  <<Slice(s, 1, i - 1)>> \o Split(rest, sep)))

\* the delimiter byte b"\x00"
Delimiter == 0

(***************************************************************************)
(* binascii.crc32: CRC-32 (reflected polynomial EDB88320, initial value    *)
(* and final xor FFFFFFFF).  A 32-bit value is kept as its four bytes,     *)
(* least significant first, which is also its "<I" wire layout.            *)
(***************************************************************************)
RECURSIVE XorBits(_, _, _)
XorBits(a, b, n) ==
    IF n = 0 THEN 0
    ELSE ((a + b) % 2) + 2 * XorBits(a \div 2, b \div 2, n - 1)

Xor8Table == [a \in Byte |-> [b \in Byte |-> XorBits(a, b, 8)]]

Xor8(a, b) == Xor8Table[a][b]

Xor16(a, b) == 256 * Xor8(a \div 256, b \div 256) + Xor8(a % 256, b % 256)

\* one bit of the table computation on c = <<high 16 bits, low 16 bits>>:
\* c = (c >> 1) ^ 0xEDB88320 if c is odd, c >> 1 otherwise
CrcShift(c) ==
    LET hi == c[1] \div 2
        lo == (c[2] \div 2) + 32768 * (c[1] % 2)
    IN  IF c[2] % 2 = 1 THEN <<Xor16(hi, 60856), Xor16(lo, 33568)>>
        ELSE <<hi, lo>>

RECURSIVE CrcShiftN(_, _)
CrcShiftN(c, n) == IF n = 0 THEN c ELSE CrcShiftN(CrcShift(c), n - 1)

CrcTable ==
    [n \in Byte |->
        LET c == CrcShiftN(<<0, n>>, 8)
        IN  <<c[2] % 256, c[2] \div 256, c[1] % 256, c[1] \div 256>>]

\* crc = table[(crc ^ byte) & 0xFF] ^ (crc >> 8)
CrcByte(c, b) ==
    LET t == CrcTable[Xor8(c[1], b)]
    IN  <<Xor8(t[1], c[2]), Xor8(t[2], c[3]), Xor8(t[3], c[4]), t[4]>>

RECURSIVE CrcFold(_, _, _)
CrcFold(c, data, i) ==
    IF i > Len(data) THEN c ELSE CrcFold(CrcByte(c, data[i]), data, i + 1)

crc32(data) ==
    LET c == CrcFold(<<255, 255, 255, 255>>, data, 1)
    IN  <<255 - c[1], 255 - c[2], 255 - c[3], 255 - c[4]>>

(***************************************************************************)
(* cobs.decode (cobs 1.1.3): [ok |-> TRUE, data |-> bytes] or DecodeError. *)
(***************************************************************************)
DecodeError == [ok |-> FALSE, data |-> <<>>]

RECURSIVE CobsLoop(_, _, _)
CobsLoop(in, idx, out) ==
    LET length == in[idx]
        end    == idx + length          \* 1-based index of the next code byte
        copy   == Slice(in, idx + 1, IF end - 1 > Len(in) THEN Len(in) ELSE end - 1)
    IN  IF length = 0 THEN DecodeError
        ELSE IF Contains(copy, 0) THEN DecodeError
        ELSE IF end > Len(in) + 1 THEN DecodeError
        ELSE IF end <= Len(in)
             THEN CobsLoop(in, end, IF length < 255 THEN (out \o copy) \o <<0>>
                                    ELSE out \o copy)
             ELSE [ok |-> TRUE, data |-> out \o copy]

cobs_decode(in) ==
    IF Len(in) = 0 THEN [ok |-> TRUE, data |-> <<>>] ELSE CobsLoop(in, 1, <<>>)

(***************************************************************************)
(* ProtocolParser._unpack_data: struct.unpack("<6sfI", data) and           *)
(* name.decode("ASCII").  The float is kept as its four wire bytes (the    *)
(* IEEE-754 bit pattern), the checksum as its four bytes, the name as the  *)
(* six decoded code points: nothing is stripped from it.                   *)
(***************************************************************************)
StructSize == 14

unpack_data(data) ==
    IF Len(data) # StructSize
    THEN [ok |-> FALSE, error |-> "ValueError"]            \* struct.error
    ELSE IF \E i \in 1..6 : data[i] > 127
    THEN [ok |-> FALSE, error |-> "UnicodeDecodeError"]    \* re-raised
    ELSE [ok |-> TRUE,
          name  |-> Slice(data, 1, 6),
          value |-> Slice(data, 7, 10),
          crc   |-> Slice(data, 11, 14)]

\* (mutant) the checksum is not compared
check_crc_skipped(packed_data, parsed_data) == TRUE

\* ProtocolParser._check_crc
check_crc(packed_data, parsed_data) ==
    With(Slice(packed_data, 1, 10), LAMBDA d : parsed_data.crc = crc32(d))

(***************************************************************************)
(* State.                                                                  *)
(***************************************************************************)
VARIABLES
    \* ProtocolParser
    buffer,      \* self.buffer
    listener,    \* self.listener: "None", "ProtocolListener" (an instance of
                 \* the interface) or "Other" (any other object)
    \* the parser's environment and history
    input,       \* bytes the caller has not passed to add_data yet
    fed,         \* every byte passed to add_data so far, in order
    delivered,   \* the listener's add_packet calls so far, in order:
                 \* [frame |-> the frame parsed, packet |-> the argument]
    outcome,     \* how the latest add_data call ended: "returned" or the
                 \* exception that left it ("none" before the first call)
    \* InfluxWriter
    queue,       \* self.queue, a Queue(100)
    client,      \* self.client: "None", "open" (an InfluxDBClient) or
                 \* "closed" (an InfluxDBClient after close())
    connect,     \* self.connect
    points,      \* the list local to _write
    wpc,         \* where the write thread is: "get" (in queue.get()),
                 \* "write" (about to call write_points) or "done"
    hpc,         \* where the connection-health thread is: "off" (never
                 \* started, or ended), "test", "ping", "close", "new", "sleep"
    \* the writer's environment and history
    storeUp,     \* whether the store answers pings and accepts writes
    accepted,    \* number of Measurements add_packet has enqueued; a
                 \* Measurement is identified by its rank in this order
    dropped,     \* number of Measurements add_packet could not enqueue
    writes,      \* the batches of the successful bulk writes, in order
    discarded,   \* the batches dropped because they exceeded MaxBatch
    failedBatch, \* the batch of the latest bulk write if that write failed
                 \* and left it pending, <<>> otherwise
    everFailed,  \* whether any bulk write has failed
    reconnect_thread, \* self._reconnect_thread: "None" or "Thread"
    started,     \* number of connection-health threads started so far
    alive,       \* number of connection-health threads that are alive
    runOutcome,  \* how the latest run() call made since the connect flag
                 \* was last cleared ended: "returned" or the exception that
                 \* left it ("none" when there was no such call)
    hasIsAlive,  \* whether threading.Thread has the method isAlive (it was
                 \* removed in Python 3.9; setup.py asks for >= 3.6)
    \* SerialReader
    device,      \* self.device: <<>> (None) or <<n>> for /dev/ttyUSBn
    port,        \* self.port: <<>> (None) or <<n>>, a Serial open on
                 \* /dev/ttyUSBn
    serialListener, \* self.listener: "None" or "ProtocolParser"
    rpc,         \* where run() is: "idle" (not called), "find" (at the
                 \* while test of _find_serialport), "for" (in its for
                 \* loop), "after" (behind the for loop), "read" (at the
                 \* entry of _read_from_serialport), "reading" (in its
                 \* loop) or "crashed" (an exception left run)
    pass,        \* the devices the for loop has still to try, in order
    \* the reader's environment and history
    globbed,     \* the devices glob() returned in the current pass
    failed,      \* the devices tried without success in the current pass
    good,        \* the devices that pass the probe and the reopen from now
                 \* on, and stay plugged in
    closed       \* the handle of the latest close() in _clear_serialport

pvars == <<buffer, listener, input, fed, delivered, outcome>>

svars == <<queue, client, connect, points, wpc, hpc, storeUp, accepted,
           dropped, writes, discarded, failedBatch, everFailed,
           reconnect_thread, started, alive, runOutcome, hasIsAlive>>

rvars == <<device, port, serialListener, rpc, pass, globbed, failed, good,
           closed>>

vars == <<pvars, svars, rvars>>

(***************************************************************************)
(* ProtocolParser._notify(data): the exception that leaves it ("" when it  *)
(* returns) and whether listener.add_packet was called.  An exception of   *)
(* add_packet itself is caught and logged.                                 *)
(***************************************************************************)
notify(l) ==
    IF l = "None" THEN [raised |-> "", called |-> FALSE]
    ELSE IF l # "ProtocolListener"
    THEN [raised |-> "AttributeError", called |-> FALSE]    \* logging.warnin
    ELSE [raised |-> "", called |-> TRUE]

(***************************************************************************)
(* ProtocolParser._parse_data on a buffer that holds a delimiter:          *)
(*   buffer  the new self.buffer                                           *)
(*   raised  the exception that leaves _parse_data, "" when it returns     *)
(*   stage   where the run ended: "split", "cobs", "unpack", "crc" or      *)
(*           "notify"                                                       *)
(*   frame, packet   the frame split off and the record decoded from it    *)
(* (parse_data_keeps_frame is a mutant: the frame is left in the buffer.)  *)
(***************************************************************************)
parse_data_keeps_frame(buf) ==
    [buffer |-> buf, raised |-> "", stage |-> "cobs", frame |-> <<>>,
     packet |-> <<>>]

parse_data(buf) ==
    With(Split(buf, Delimiter), LAMBDA parts :
    IF Len(parts) # 2
    THEN [buffer |-> buf, raised |-> "ValueError", stage |-> "split",
          frame |-> <<>>, packet |-> <<>>]
    ELSE
    With(cobs_decode(parts[1]), LAMBDA dec :
    With(unpack_data(dec.data), LAMBDA parsed :
    LET packet == parts[1]
        rest   == parts[2]
        drop(stage) == [buffer |-> rest, raised |-> "", stage |-> stage,
                        frame |-> packet, packet |-> <<>>]
    IN  IF ~dec.ok THEN drop("cobs")
        ELSE IF ~parsed.ok THEN drop("unpack")
        ELSE IF ~check_crc(dec.data, parsed) THEN drop("crc")
        ELSE [buffer |-> rest, raised |-> "", stage |-> "notify",
              frame |-> packet,
              packet |-> [name |-> parsed.name, value |-> parsed.value,
                          crc |-> parsed.crc]])))

(***************************************************************************)
(* ProtocolParser.add_data(raw_data)                                       *)
(***************************************************************************)
add_data(raw_data) ==
    \E buf \in {buffer \o raw_data} :
    IF ~Contains(buf, Delimiter)
    THEN /\ buffer' = buf
         /\ outcome' = "returned"
         /\ delivered' = delivered
    ELSE \E r \in {parse_data(buf)} :
         LET n == IF r.stage = "notify" THEN notify(listener)
                  ELSE [raised |-> r.raised, called |-> FALSE]
         IN  /\ buffer' = r.buffer
             /\ outcome' = IF n.raised = "" THEN "returned" ELSE n.raised
             /\ delivered' = IF n.called
                             THEN Append(delivered,
                                         [frame |-> r.frame, packet |-> r.packet])
                             ELSE delivered

(***************************************************************************)
(* The parser's caller: the next bytes of the input, cut anywhere (an      *)
(* empty chunk included), are passed to add_data.                          *)
(***************************************************************************)
FeedPrefix(k) ==
    /\ add_data(Slice(input, 1, k))
    /\ input' = Slice(input, k + 1, Len(input))
    /\ fed' = fed \o Slice(input, 1, k)
    /\ UNCHANGED <<listener, svars, rvars>>

Feed == \E k \in 0..Len(input) : FeedPrefix(k)

\* the number of delimiters in s
RECURSIVE Count(_, _)
Count(s, x) ==
    IF s = <<>> THEN 0
    ELSE (IF Head(s) = x THEN 1 ELSE 0) + Count(Tail(s), x)

\* the same caller passing chunks that hold at most one delimiter each,
\* anywhere in the chunk
FeedChunk ==
    \E k \in 0..Len(input) :
        /\ Count(Slice(input, 1, k), Delimiter) <= 1
        /\ FeedPrefix(k)

(***************************************************************************)
(* Input streams: up to MaxFrames frames, each followed by the delimiter.  *)
(* The frames were produced with binascii.crc32 and a COBS encoder.        *)
(***************************************************************************)
\* name "p1", value 1.0
Frame1 == <<3, 112, 49, 1, 1, 1, 1, 1, 7, 128, 63, 9, 140, 108, 161>>
\* name "flow", value 2.5
Frame2 == <<5, 102, 108, 111, 119, 1, 1, 1, 7, 32, 64, 113, 87, 120, 70>>
\* Frame1 with one bit of the checksum field flipped
FrameBadCrc == <<3, 112, 49, 1, 1, 1, 1, 1, 7, 128, 63, 8, 140, 108, 161>>
\* a record with a correct checksum whose name is not ASCII
FrameNonAscii == <<3, 112, 195, 1, 1, 1, 1, 1, 7, 128, 63, 21, 103, 108, 25>>
\* a length code that runs past the end of the frame
FrameBadCobs == <<5, 1, 2>>
\* a well-stuffed frame of two bytes
FrameShort == <<3, 65, 66>>
FrameEmpty == <<>>

FrameKinds == <<Frame1, Frame2, FrameBadCrc, FrameNonAscii, FrameBadCobs,
                FrameShort, FrameEmpty>>

RECURSIVE StreamOf(_)
StreamOf(ks) ==
    IF ks = <<>> THEN <<>>
    ELSE (FrameKinds[Head(ks)] \o <<Delimiter>>) \o StreamOf(Tail(ks))

Streams ==
    { StreamOf(ks) :
        ks \in UNION { [1..n -> 1..Len(FrameKinds)] : n \in 0..MaxFrames } }

Listeners == {"None", "ProtocolListener", "Other"}

(***************************************************************************)
(* InfluxWriter.  A Measurement is modelled by its rank in the order in    *)
(* which add_packet enqueued it (1, 2, ...): its name, timestamp and value  *)
(* play no part in the queue and batch logic.                              *)
(***************************************************************************)
\* Queue(100)
QueueSize == 100
\* if len(points) >= 100
BatchSize == 100
\* if len(points) > 500
MaxBatch == 500

\* (mutant) a queue without a size limit
put_unbounded(q, item) == [queue |-> Append(q, item), full |-> FALSE]

\* Queue.put_nowait(item): queue.Full when the queue holds maxsize items
put_nowait(q, item) ==
    IF Len(q) >= QueueSize THEN [queue |-> q, full |-> TRUE]
    ELSE [queue |-> Append(q, item), full |-> FALSE]

\* InfluxWriter.add_packet(packet): queue.Full is caught and logged
add_packet ==
    \E r \in {put_nowait(queue, accepted + 1)} :
        /\ queue' = r.queue
        /\ accepted' = IF r.full THEN accepted ELSE accepted + 1
        /\ dropped' = IF r.full THEN dropped + 1 ELSE dropped
        /\ UNCHANGED <<client, connect, points, wpc, hpc, storeUp, writes,
                       discarded, failedBatch, everFailed,
                       reconnect_thread, started, alive, runOutcome, hasIsAlive,
                       pvars, rvars>>

\* client.write_points and client.ping succeed on an open client of a
\* reachable store; on None they raise AttributeError, on a closed client
\* or an unreachable store a connection error.
ClientWorks == client = "open" /\ storeUp

\* (mutant) the batch is not cleared after a successful write
on_write_success_keeps(batch) == [points |-> batch, wpc |-> "get"]

\* write_points returned: points = []
on_write_success(batch) == [points |-> <<>>, wpc |-> "get"]

\* (mutant) a failed write drops the batch
on_write_failure_clears(batch) == [points |-> <<>>, wpc |-> "get"]

\* the except: clause of _write: the batch is kept, the loop goes on
on_write_failure(batch) == [points |-> batch, wpc |-> "get"]

\* (mutant) the item is read and stays in the queue
queue_get_peek(q) == [item |-> Head(q), queue |-> q]

\* (mutant) the newest item leaves the queue
queue_get_newest(q) == [item |-> q[Len(q)], queue |-> SubSeq(q, 1, Len(q) - 1)]

\* Queue.get() on a queue that is not empty: the oldest item leaves
queue_get(q) == [item |-> Head(q), queue |-> Tail(q)]

\* (mutant) the batch is dropped when it reaches the limit
overflow_at_limit(batch) == Len(batch) >= MaxBatch

\* if len(points) > 500: points = []
overflow(batch) == Len(batch) > MaxBatch

(***************************************************************************)
(* InfluxWriter._write, the write thread.  self.write is set at            *)
(* construction and nothing in the program clears it.                      *)
(***************************************************************************)
\* item = self.queue.get(); points.append(item), then the two tests when the
\* batch is below BatchSize
WGet ==
    /\ wpc = "get"
    /\ queue # <<>>
    /\ \E batch \in {Append(points, queue_get(queue).item)} :
        /\ queue' = queue_get(queue).queue
        /\ IF Len(batch) >= BatchSize
           THEN /\ points' = batch
                /\ wpc' = "write"
                /\ UNCHANGED discarded
           ELSE /\ points' = IF overflow(batch) THEN <<>> ELSE batch
                /\ wpc' = "get"
                /\ discarded' = IF overflow(batch) THEN Append(discarded, batch)
                                ELSE discarded
    /\ UNCHANGED <<client, connect, hpc, storeUp, accepted, dropped, writes,
                   failedBatch, everFailed, reconnect_thread, started, alive,
                   runOutcome, hasIsAlive, pvars, rvars>>

\* self.client.write_points(points), its except: clause and the size test
WWrite ==
    /\ wpc = "write"
    /\ \E r \in {IF ClientWorks THEN on_write_success(points)
                 ELSE on_write_failure(points)} :
        /\ wpc' = r.wpc
        /\ points' = IF overflow(r.points) THEN <<>> ELSE r.points
        /\ discarded' = IF overflow(r.points) THEN Append(discarded, r.points)
                        ELSE discarded
        /\ writes' = IF ClientWorks THEN Append(writes, points) ELSE writes
        /\ failedBatch' = IF ClientWorks \/ Len(points) > MaxBatch THEN <<>>
                          ELSE points
        /\ everFailed' = (everFailed \/ ~ClientWorks)
    /\ UNCHANGED <<queue, client, connect, hpc, storeUp, accepted, dropped,
                   reconnect_thread, started, alive, runOutcome, hasIsAlive, pvars,
                   rvars>>

(***************************************************************************)
(* InfluxWriter.run and the connection-health thread.                      *)
(***************************************************************************)
\* (mutant) the thread is never taken to be running
is_running_never(h) == FALSE

\* self._reconnect_thread.isAlive(), where the method exists
is_running(h) == h # "off"

\* self.connect = True and a new thread is started
start_thread ==
    /\ connect' = TRUE
    /\ reconnect_thread' = "Thread"
    /\ hpc' = "test"
    /\ started' = started + 1
    /\ alive' = alive + 1
    /\ runOutcome' = "returned"

\* run(): nothing when the thread is alive, else set connect and start a
\* thread.  Where self._reconnect_thread is a Thread and Thread has no
\* method isAlive, the test raises AttributeError.
Run ==
    /\ IF reconnect_thread = "None" THEN start_thread
       ELSE IF ~hasIsAlive
       THEN /\ runOutcome' = "AttributeError"
            /\ UNCHANGED <<connect, reconnect_thread, hpc, started, alive>>
       ELSE IF is_running(hpc)
       THEN /\ runOutcome' = "returned"
            /\ UNCHANGED <<connect, reconnect_thread, hpc, started, alive>>
       ELSE start_thread
    /\ UNCHANGED <<queue, client, points, wpc, storeUp, accepted, dropped,
                   writes, discarded, failedBatch, everFailed, hasIsAlive,
                   pvars, rvars>>

HUnchanged == UNCHANGED <<queue, connect, points, wpc, storeUp, accepted,
                          dropped, writes, discarded, failedBatch, everFailed,
                          reconnect_thread, started, runOutcome, hasIsAlive,
                          pvars,
                          rvars>>

\* while self.connect:
HTest ==
    /\ hpc = "test"
    /\ hpc' = IF connect THEN "ping" ELSE "off"
    /\ alive' = IF connect THEN alive ELSE alive - 1
    /\ UNCHANGED client
    /\ HUnchanged

\* self.client.ping(); an exception leads into _try_connect
HPing ==
    /\ hpc = "ping"
    /\ hpc' = IF ClientWorks THEN "sleep" ELSE "close"
    /\ UNCHANGED <<client, alive>>
    /\ HUnchanged

\* (mutant) the old client is not closed
HClose_skipped ==
    /\ hpc = "close"
    /\ client' = client
    /\ hpc' = "new"
    /\ UNCHANGED alive
    /\ HUnchanged

\* _try_connect: self.client.close(), any exception ignored
HClose ==
    /\ hpc = "close"
    /\ client' = IF client = "None" THEN "None" ELSE "closed"
    /\ hpc' = "new"
    /\ UNCHANGED alive
    /\ HUnchanged

\* (mutant) the new client is not stored
HNew_keeps_old ==
    /\ hpc = "new"
    /\ client' = client
    /\ hpc' = "sleep"
    /\ UNCHANGED alive
    /\ HUnchanged

\* _try_connect: self.client = InfluxDBClient(database="hdvent_data").
\* The constructor of influxdb 5.3.0 sets up a requests session and opens
\* no connection: with this argument it returns, whether the store is
\* reachable or not, and the except: clause is not entered.
HNew ==
    /\ hpc = "new"
    /\ client' = "open"
    /\ hpc' = "sleep"
    /\ UNCHANGED alive
    /\ HUnchanged

\* time.sleep(1)
HSleep ==
    /\ hpc = "sleep"
    /\ hpc' = "test"
    /\ UNCHANGED <<client, alive>>
    /\ HUnchanged

(***************************************************************************)
(* The writer's environment: the store and the caller of add_packet.       *)
(***************************************************************************)
EnvUnchanged == UNCHANGED <<queue, client, points, wpc, hpc,
                            accepted, dropped, writes, discarded,
                            failedBatch, everFailed, reconnect_thread,
                            started, alive, hasIsAlive, pvars, rvars>>

StoreUp == ~storeUp /\ storeUp' = TRUE /\ UNCHANGED <<connect, runOutcome>>
           /\ EnvUnchanged

StoreDown == storeUp /\ storeUp' = FALSE /\ UNCHANGED <<connect, runOutcome>>
             /\ EnvUnchanged

\* the owner of the writer clears the connect flag to stop the health loop
ClearConnect ==
    /\ connect
    /\ connect' = FALSE
    /\ runOutcome' = "none"
    /\ UNCHANGED storeUp
    /\ EnvUnchanged

\* add_packet is called, at most maxCalls times in all and only while the
\* queue holds fewer than maxLag Measurements
Produce(maxCalls, maxLag) ==
    /\ accepted + dropped < maxCalls
    /\ Len(queue) < maxLag
    /\ add_packet

(***************************************************************************)
(* SerialReader.  A device /dev/ttyUSBn is modelled by its number n, None  *)
(* by the empty tuple.                                                     *)
(***************************************************************************)
\* the devices that may be plugged in
Ports == {0, 2, 10}

\* the decimal digits of n, as they stand in the device's name
RECURSIVE Digits(_)
Digits(n) == IF n < 10 THEN <<n>> ELSE Append(Digits(n \div 10), n % 10)

\* a < b for strings
RECURSIVE StrLess(_, _)
StrLess(a, b) ==
    IF b = <<>> THEN FALSE
    ELSE IF a = <<>> THEN TRUE
    ELSE IF Head(a) # Head(b) THEN Head(a) < Head(b)
    ELSE StrLess(Tail(a), Tail(b))

\* "/dev/ttyUSB<m>" < "/dev/ttyUSB<n>"
NameLess(m, n) == StrLess(Digits(m), Digits(n))

\* (mutant) ascending order
RECURSIVE sort_forward(_)
sort_forward(devices) ==
    IF devices = {} THEN <<>>
    ELSE LET m == CHOOSE x \in devices :
                      \A y \in devices \ {x} : NameLess(x, y)
         IN  <<m>> \o sort_forward(devices \ {m})

\* devices.sort(reverse=True): the names in descending string order
RECURSIVE sort_reverse(_)
sort_reverse(devices) ==
    IF devices = {} THEN <<>>
    ELSE LET m == CHOOSE x \in devices :
                      \A y \in devices \ {x} : NameLess(y, x)
         IN  <<m>> \o sort_reverse(devices \ {m})

\* (mutant) the device stays set when the reopen failed
reopen_failed_keeps_device(d) == [port |-> <<>>, device |-> <<d>>]

\* except Exception: self.port = None; self.device = None
reopen_failed(d) == [port |-> <<>>, device |-> <<>>]

\* (mutant) the handle stays set
clear_serialport_keeps_port(p) == [closed |-> p, port |-> p, device |-> <<>>]

\* _clear_serialport: close() is tried on the handle, then both are None
clear_serialport(p) == [closed |-> p, port |-> <<>>, device |-> <<>>]

\* (mutant) nothing is caught
serial_notify_catches_nothing(raised) == FALSE

\* SerialReader._notify: except Exception around listener.add_data
serial_notify_catches(raised) ==
    raised \in {"ValueError", "AttributeError", "NotImplementedError"}

RUnchanged == UNCHANGED <<pvars, svars, serialListener, good>>

\* run() is called
SerialRun ==
    /\ rpc = "idle"
    /\ rpc' = "find"
    /\ UNCHANGED <<device, port, pass, globbed, failed, closed>>
    /\ RUnchanged

\* _find_serialport, the while test, glob() and the sort; without devices
\* it sleeps and tests again
FindLoop(globs) ==
    /\ rpc = "find"
    /\ IF device # <<>>
       THEN /\ rpc' = "read"
            /\ UNCHANGED <<pass, globbed, failed>>
       ELSE \E devices \in globs :
            /\ good \subseteq devices
            /\ globbed' = devices
            /\ failed' = {}
            /\ pass' = sort_reverse(devices)
            /\ rpc' = IF devices = {} THEN "find" ELSE "for"
    /\ UNCHANGED <<device, port, closed>>
    /\ RUnchanged

\* one iteration of the for loop: _try_device(device) and, when it says
\* True, the reopen.  Every exception of Serial(), read() and close() is
\* caught in _try_device; an exception of the reopen is caught here.
TryDevice ==
    /\ rpc = "for"
    /\ pass # <<>>
    /\ LET d == Head(pass) IN
       \E probe, reopen \in (IF d \in good THEN {TRUE} ELSE BOOLEAN) :
          IF ~probe
          THEN /\ pass' = Tail(pass)
               /\ failed' = failed \cup {d}
               /\ UNCHANGED <<device, port, rpc>>
          ELSE IF reopen
          THEN /\ device' = <<d>>
               /\ port' = <<d>>
               /\ rpc' = "after"                         \* break
               /\ UNCHANGED <<pass, failed>>
          ELSE /\ device' = reopen_failed(d).device
               /\ port' = reopen_failed(d).port
               /\ pass' = Tail(pass)                     \* sleep, continue
               /\ failed' = failed \cup {d}
               /\ UNCHANGED rpc
    /\ UNCHANGED <<globbed, closed>>
    /\ RUnchanged

\* behind the for loop: break when port and device are set, else sleep and
\* go to the while test
EndOfPass ==
    /\ \/ rpc = "after"
       \/ rpc = "for" /\ pass = <<>>
    /\ rpc' = IF port # <<>> /\ device # <<>> THEN "read" ELSE "find"
    /\ UNCHANGED <<device, port, pass, globbed, failed, closed>>
    /\ RUnchanged

\* _read_from_serialport: if not self.port: return
ReadEntry ==
    /\ rpc = "read"
    /\ rpc' = IF port = <<>> THEN "find" ELSE "reading"
    /\ UNCHANGED <<device, port, pass, globbed, failed, closed>>
    /\ RUnchanged

\* the index of the first delimiter of s, Len(s) when it has none
ReadUntilLimit(s) ==
    IF Contains(s, Delimiter) THEN IndexFrom(s, Delimiter, 1) ELSE Len(s)

\* self.port.read_until(b"\x00") returns: the bytes up to and including
\* the next delimiter, or fewer (none at all included) when the timeout of
\* one second expires first; then self._notify(data)
ReadChunk ==
    /\ rpc = "reading"
    /\ \E k \in 0..ReadUntilLimit(input) :
        /\ input' = Slice(input, k + 1, Len(input))
        /\ IF serialListener = "None"
           THEN /\ UNCHANGED <<buffer, fed, delivered, outcome>>
                /\ rpc' = "reading"
           ELSE /\ add_data(Slice(input, 1, k))
                /\ fed' = fed \o Slice(input, 1, k)
                /\ rpc' = IF outcome' = "returned"
                             \/ serial_notify_catches(outcome')
                          THEN "reading" ELSE "crashed"
    /\ UNCHANGED <<listener, svars, device, port, serialListener, pass,
                   globbed, failed, good, closed>>

\* self.port.read_until raises: _clear_serialport() and return
ReadError ==
    /\ rpc = "reading"
    /\ closed' = clear_serialport(port).closed
    /\ port' = clear_serialport(port).port
    /\ device' = clear_serialport(port).device
    /\ rpc' = "find"
    /\ UNCHANGED <<pass, globbed, failed>>
    /\ RUnchanged

\* from now on device d is plugged in, answers the probe and can be opened
MakeGood ==
    /\ \E d \in Ports \ good : good' = good \cup {d}
    /\ UNCHANGED <<pvars, svars, device, port, serialListener, rpc, pass,
                   globbed, failed, closed>>

(***************************************************************************)
(* Specifications.                                                          *)
(***************************************************************************)
\* the parser after construction, a listener registered or not
ParserInit ==
    /\ buffer = <<>>
    /\ listener \in Listeners
    /\ input \in Streams
    /\ fed = <<>>
    /\ delivered = <<>>
    /\ outcome = "none"

\* the writer after construction: the write thread waits in queue.get()
SinkInit ==
    /\ queue = <<>>
    /\ client = "None"
    /\ connect = TRUE
    /\ points = <<>>
    /\ wpc = "get"
    /\ hpc = "off"
    /\ accepted = 0
    /\ dropped = 0
    /\ writes = <<>>
    /\ discarded = <<>>
    /\ failedBatch = <<>>
    /\ everFailed = FALSE
    /\ reconnect_thread = "None"
    /\ started = 0
    /\ alive = 0
    /\ runOutcome = "none"

\* the reader after construction, run() not called
ReaderIdle ==
    /\ device = <<>>
    /\ port = <<>>
    /\ serialListener = "None"
    /\ rpc = "idle"
    /\ pass = <<>>
    /\ globbed = {}
    /\ failed = {}
    /\ good = {}
    /\ closed = <<>>

\* the interpreter has Thread.isAlive (Python 3.6 to 3.8)
WithIsAlive == hasIsAlive = TRUE

ParserIdle ==
    /\ buffer = <<>>
    /\ listener = "ProtocolListener"
    /\ input = <<>>
    /\ fed = <<>>
    /\ delivered = <<>>
    /\ outcome = "none"

\* ProtocolParser fed with a stream cut into chunks
ParserNext == Feed

ParserSpecInit ==
    ParserInit /\ SinkInit /\ storeUp = TRUE /\ WithIsAlive /\ ReaderIdle

ParserSpec == ParserSpecInit /\ [][ParserNext]_vars

\* a burst of add_packet calls against the write thread, run() not called

BurstNext ==
    \/ Produce(MaxBurst, QueueSize + 1)
    \/ WGet
    \/ WWrite

BurstInit ==
    ParserIdle /\ SinkInit /\ storeUp = TRUE /\ WithIsAlive /\ ReaderIdle

BurstSpec == BurstInit /\ [][BurstNext]_vars

\* the store is reachable throughout; run() is called at any time
UpNext ==
    \/ Produce(MaxUp, MaxLag)
    \/ WGet \/ WWrite
    \/ Run
    \/ HTest \/ HPing \/ HClose \/ HNew \/ HSleep

UpInit ==
    ParserIdle /\ SinkInit /\ storeUp = TRUE /\ WithIsAlive /\ ReaderIdle

UpSpec == UpInit /\ [][UpNext]_vars

\* the store is unreachable from the start and comes back, if ever, after
\* the first batch has been discarded
OutageNext ==
    \/ Produce(MaxOutage, MaxLag)
    \/ WGet \/ WWrite
    \/ Run
    \/ HTest \/ HPing \/ HClose \/ HNew \/ HSleep
    \/ discarded # <<>> /\ StoreUp

OutageInit ==
    ParserIdle /\ SinkInit /\ storeUp = FALSE /\ WithIsAlive /\ ReaderIdle

OutageSpec == OutageInit /\ [][OutageNext]_vars

\* the store is unreachable from the start and comes back at any time, for
\* good.  Both threads keep running (weak fairness of each of their steps);
\* nothing obliges the caller of add_packet to call again.
LiveNext ==
    \/ Produce(MaxLive, MaxLag)
    \/ WGet \/ WWrite
    \/ Run
    \/ HTest \/ HPing \/ HClose \/ HNew \/ HSleep
    \/ StoreUp

LiveInit ==
    ParserIdle /\ SinkInit /\ storeUp = FALSE /\ WithIsAlive /\ ReaderIdle

LiveFairness ==
    /\ WF_vars(WGet) /\ WF_vars(WWrite)
    /\ WF_vars(HTest) /\ WF_vars(HPing) /\ WF_vars(HClose) /\ WF_vars(HNew)
    /\ WF_vars(HSleep)

LiveSpec == LiveInit /\ [][LiveNext]_vars /\ LiveFairness

\* run() and the connection-health thread alone: run() is called at any
\* time, the owner clears the connect flag at any time, the store comes and
\* goes, on an interpreter with or without Thread.isAlive.  The health
\* thread keeps running (weak fairness of each of its steps).
HealthNext ==
    \/ (started < MaxThreads \/ hpc # "off") /\ Run
    \/ ClearConnect
    \/ HTest \/ HPing \/ HClose \/ HNew \/ HSleep
    \/ StoreUp \/ StoreDown

HealthInit ==
    /\ ParserIdle /\ SinkInit /\ ReaderIdle
    /\ storeUp \in BOOLEAN
    /\ hasIsAlive \in BOOLEAN

HealthFairness ==
    /\ WF_vars(HTest) /\ WF_vars(HPing) /\ WF_vars(HClose) /\ WF_vars(HNew)
    /\ WF_vars(HSleep)

HealthSpec == HealthInit /\ [][HealthNext]_vars /\ HealthFairness

\* ProtocolParser fed with chunks of at most one delimiter each
ChunkNext == FeedChunk

ChunkInit ==
    ParserInit /\ SinkInit /\ storeUp = TRUE /\ WithIsAlive /\ ReaderIdle

ChunkSpec == ChunkInit /\ [][ChunkNext]_vars

\* SerialReader.run with any devices plugged in and unplugged, probes and
\* reopens failing at will, reads failing at will; a device may become
\* good for ever.  The reader's thread keeps running (weak fairness of each
\* step of run; nothing obliges a read to fail).
ReaderNext ==
    \/ SerialRun
    \/ FindLoop(SUBSET Ports)
    \/ TryDevice
    \/ EndOfPass
    \/ ReadEntry
    \/ ReadChunk
    \/ ReadError
    \/ MakeGood

ReaderInit ==
    /\ buffer = <<>>
    /\ listener = "ProtocolListener"
    /\ input = StreamOf(<<1>>)
    /\ fed = <<>>
    /\ delivered = <<>>
    /\ outcome = "none"
    /\ SinkInit /\ storeUp = TRUE /\ WithIsAlive
    /\ device = <<>>
    /\ port = <<>>
    /\ serialListener \in {"None", "ProtocolParser"}
    /\ rpc = "idle"
    /\ pass = <<>>
    /\ globbed = {}
    /\ failed = {}
    /\ good = {}
    /\ closed = <<>>

ReaderFairness ==
    /\ WF_vars(SerialRun) /\ WF_vars(FindLoop(SUBSET Ports))
    /\ WF_vars(TryDevice) /\ WF_vars(EndOfPass) /\ WF_vars(ReadEntry)

ReaderSpec == ReaderInit /\ [][ReaderNext]_vars /\ ReaderFairness

\* the reader on one device, streaming into a ProtocolParser with a
\* listener of any kind
LinkNext ==
    \/ SerialRun
    \/ FindLoop({{2}})
    \/ TryDevice
    \/ EndOfPass
    \/ ReadEntry
    \/ ReadChunk
    \/ ReadError

LinkInit ==
    /\ ParserInit
    /\ SinkInit /\ storeUp = TRUE /\ WithIsAlive
    /\ device = <<>>
    /\ port = <<>>
    /\ serialListener = "ProtocolParser"
    /\ rpc = "idle"
    /\ pass = <<>>
    /\ globbed = {}
    /\ failed = {}
    /\ good = {}
    /\ closed = <<>>

LinkSpec == LinkInit /\ [][LinkNext]_vars

(***************************************************************************)
(* Claims about ProtocolParser (checked under ParserSpec).                 *)
(***************************************************************************)
\* the frames of a byte stream that are followed by a delimiter
TerminatedFrames(stream) ==
    LET parts == Split(stream, Delimiter)
    IN  [i \in 1..(Len(parts) - 1) |-> parts[i]]

\* a frame whose unstuffed form is 14 bytes, the last 4 being the CRC-32 of
\* the first 10
Checked(frame) ==
    LET u == cobs_decode(frame)
    IN  /\ u.ok
        /\ Len(u.data) = 14
        /\ Slice(u.data, 11, 14) = crc32(Slice(u.data, 1, 10))

\* the records carried by Frame1 and Frame2
Packet1 == [name |-> <<112, 49, 0, 0, 0, 0>>, value |-> <<0, 0, 128, 63>>,
            crc |-> <<9, 140, 108, 161>>]
Packet2 == [name |-> <<102, 108, 111, 119, 0, 0>>, value |-> <<0, 0, 32, 64>>,
            crc |-> <<113, 87, 120, 70>>]

\* C1: add_packet is only ever called with the record of a delimiter-
\* terminated frame of the bytes fed so far whose unstuffed form is exactly
\* 14 bytes and whose checksum field equals the CRC-32 of its first 10
\* bytes; frames failing unstuffing, structural decode or the checksum
\* comparison cause no call (there are never more calls than checked frames).
C1_OnlyCheckedRecordsDelivered ==
    LET frames == TerminatedFrames(fed) IN
    /\ \A i \in 1..Len(delivered) :
          LET d == delivered[i]
              u == cobs_decode(d.frame)
          IN  /\ \E j \in 1..Len(frames) : frames[j] = d.frame
              /\ Checked(d.frame)
              /\ \A k \in 1..6 : u.data[k] < 128
              /\ d.packet = [name  |-> Slice(u.data, 1, 6),
                             value |-> Slice(u.data, 7, 10),
                             crc   |-> Slice(u.data, 11, 14)]
    /\ Len(delivered) <= Cardinality({j \in 1..Len(frames) : Checked(frames[j])})

\* C1 witness: a frame with a wrong checksum and then a valid frame were
\* fed; only the valid one reached the listener.
C1_Witness ==
    /\ fed = StreamOf(<<3, 1>>)
    /\ input = <<>>
    /\ Len(delivered) = 1
    /\ delivered[1].packet = Packet1

\* C2: the stream <Frame1> 00 <Frame2> 00, cut anywhere (also not at all),
\* gives the listener exactly the packet of Frame1 and then that of Frame2.
C2_TwoFramesAnySplit ==
    (listener = "ProtocolListener" /\ fed = StreamOf(<<1, 2>>) /\ input = <<>>)
        => /\ Len(delivered) = 2
           /\ delivered[1].packet = Packet1
           /\ delivered[2].packet = Packet2

\* C3: every add_data call returns normally, whatever the chunk and the
\* buffer.
C3_AddDataNeverRaises == outcome \in {"none", "returned"}

\* C4: an add_data call that leaves at least one delimiter in the buffer
\* removes everything up to and including the first delimiter, and a valid
\* frame fully buffered after a bad frame is still emitted.
C4_FirstFrameAlwaysConsumed ==
    /\ [][LET buf == buffer \o Slice(fed', Len(fed) + 1, Len(fed'))
          IN  Contains(buf, Delimiter)
                => buffer' = Slice(buf, IndexFrom(buf, Delimiter, 1) + 1, Len(buf))
         ]_pvars
    /\ []((listener = "ProtocolListener" /\ input = <<>>
             /\ fed \in {StreamOf(<<3, 1>>), StreamOf(<<5, 1>>), StreamOf(<<6, 1>>)})
            => \E i \in 1..Len(delivered) : delivered[i].packet = Packet1)

(***************************************************************************)
(* Claims about InfluxWriter.                                              *)
(***************************************************************************)
\* number of Measurements the write thread has taken from the queue
Pulled == accepted - Len(queue)

RECURSIVE Flatten(_)
Flatten(batches) ==
    IF batches = <<>> THEN <<>>
    ELSE With(Flatten(Tail(batches)), LAMBDA rest : Head(batches) \o rest)

Elements(seq) == {seq[i] : i \in 1..Len(seq)}

\* C5 (BurstSpec): add_packet can be called in every state and returns
\* after one enqueue attempt; the queue never holds more than 100
\* Measurements; on a queue of 100 the new Measurement is dropped and the
\* queue is unchanged.
C5_AddPacketNeverBlocks ==
    /\ [](Len(queue) <= 100)
    /\ [](ENABLED add_packet)
    /\ [][(accepted' + dropped' # accepted + dropped)
            => IF Len(queue) = 100
               THEN queue' = queue /\ dropped' = dropped + 1
                    /\ accepted' = accepted
               ELSE queue' = Append(queue, accepted + 1) /\ dropped' = dropped
                    /\ accepted' = accepted + 1
         ]_vars

\* C5 witness: a Measurement was dropped on a full queue.
C5_Witness == dropped > 0 /\ Len(queue) = 100 /\ accepted + dropped = 102

\* C6 (UpSpec): while no bulk write has failed, after n pulls the write
\* loop has issued n \div 100 bulk writes of exactly 100 Measurements each
\* and n % 100 Measurements are pending (at the end of an iteration).
C6_BatchesOfHundred ==
    (~everFailed /\ wpc = "get")
        => /\ Len(writes) = Pulled \div 100
           /\ \A i \in 1..Len(writes) : Len(writes[i]) = 100
           /\ Len(points) = Pulled % 100
           /\ discarded = <<>>

\* C6 witness: 250 pulled, 2 writes of 100, 50 pending.
C6_Witness ==
    /\ ~everFailed /\ wpc = "get"
    /\ Pulled = 250
    /\ Len(writes) = 2
    /\ Len(points) = 50

\* C7 (OutageSpec): at the end of every iteration the batch holds at most
\* 500 Measurements, only a batch of more than 500 is discarded, and while
\* every write fails the batch is first cleared when the 501st Measurement
\* has been pulled.
C7_DiscardAbove500 ==
    /\ wpc = "get" => Len(points) <= 500
    /\ \A i \in 1..Len(discarded) : Len(discarded[i]) > 500
    /\ (writes = <<>> /\ Pulled <= 500)
          => discarded = <<>> /\ points = [i \in 1..Pulled |-> i]
    /\ (writes = <<>> /\ Pulled >= 501 /\ wpc = "get")
          => discarded # <<>> /\ discarded[1] = [i \in 1..501 |-> i]

\* C7 witness: the 501st Measurement was pulled, its write failed and the
\* batch was discarded.
C7_Witness ==
    /\ writes = <<>>
    /\ Pulled = 501 /\ wpc = "get"
    /\ Len(discarded) = 1
    /\ points = <<>>

\* C8 (OutageSpec): a failed bulk write leaves the batch as it was, the
\* write loop goes on, and the next write attempt carries the same
\* Measurements followed by the newly pulled one (a failed batch of more
\* than 500 is discarded instead).
C8_FailedWriteKeepsBatch ==
    /\ wpc \in {"get", "write"}
    /\ (wpc = "get" /\ failedBatch # <<>>) => points = failedBatch
    /\ (wpc = "write" /\ failedBatch # <<>>)
          => points = Append(failedBatch, Pulled)

\* C8 witness: a write of 100 Measurements failed while the health thread
\* had closed the connection, and the next attempt is about to be made with
\* 101.
C8_Witness ==
    /\ wpc = "write"
    /\ Len(failedBatch) = 100
    /\ Len(points) = 101
    /\ client = "closed"

\* C9 (OutageSpec): the Measurements written, over all bulk writes in
\* order, appear in the order in which add_packet accepted them, each at
\* most once, and an accepted Measurement that was not written was
\* discarded with an oversized batch or is still pending in the queue or
\* the batch.  The batch that the next bulk write will carry is in that
\* order as well.
C9_WrittenInAcceptOrder ==
    LET written == Flatten(writes) IN
    /\ \A i \in 1..Len(written) : written[i] \in 1..accepted
    /\ \A i \in 1..(Len(written) - 1) : written[i] < written[i + 1]
    /\ \A i \in 1..(Len(points) - 1) : points[i] < points[i + 1]
    /\ (1..accepted) \ Elements(written)
          \subseteq (Elements(Flatten(discarded)) \cup Elements(queue)
                        \cup Elements(points))

\* C9 witness: a batch was discarded and a later batch was written.
C9_Witness ==
    /\ discarded # <<>>
    /\ writes # <<>>
    /\ queue # <<>>

\* Measurement m waits in the queue or in the batch
Pending(m) == m \in Elements(queue) \/ m \in Elements(points)

WrittenM(m) == \E i \in 1..Len(writes) : m \in Elements(writes[i])

DiscardedM(m) == \E i \in 1..Len(discarded) : m \in Elements(discarded[i])

C11_ReadErrorBackToSearch ==
    /\ [](rpc # "crashed")
    /\ [](rpc = "reading" => port # <<>> /\ device # <<>>)
    /\ [](rpc = "find" => port = <<>> /\ device = <<>>)
    /\ [][rpc # "idle" => rpc' # "idle"]_vars
    /\ [][rpc' = "reading" => rpc \in {"read", "reading"}]_vars
    /\ [][rpc = "reading" /\ rpc' # "reading"
            => /\ rpc' = "find"
               /\ closed' = port
               /\ port' = <<>>
               /\ device' = <<>>]_vars

\* C11 witness: a read failed on one device, the search ran again and the
\* reader is now streaming from another one.
C11_Witness ==
    /\ rpc = "reading"
    /\ closed # <<>>
    /\ port # <<>>
    /\ port # closed

C13_SearchEndsWithHandle ==
    /\ [](rpc = "read" => port # <<>> /\ device # <<>>)
    /\ (rpc \in {"find", "for", "after"} /\ good # {})
          ~> (rpc = "read" /\ port # <<>>)

\* C13 witness: after a read error on a device and a failure in the
\* current pass, the search ended on a device that is good now.
C13_Witness ==
    /\ rpc = "read"
    /\ device # <<>> /\ device[1] \in good
    /\ failed # {}
    /\ closed = device

(***************************************************************************)
(* Claims about run() and the connection-health thread (HealthSpec).       *)
(***************************************************************************)
\* C14 (HealthSpec): whatever run() calls are made, at most one
\* connection-health thread is alive at any time (it is the one whose
\* position is hpc), and no thread is started while one is alive.
C14_OneHealthThread ==
    /\ [](alive <= 1)
    /\ [](alive = IF hpc = "off" THEN 0 ELSE 1)
    /\ [][alive > 0 => started' = started /\ alive' <= alive]_vars

\* C14 witness: a first thread ended, run() started a second one, the flag
\* was cleared, and a further run() call returned while the second thread
\* was still alive: it started nothing and left the flag as it was.
C14_Witness ==
    /\ started = 2
    /\ alive = 1
    /\ ~connect
    /\ runOutcome = "returned"

C20_RunLeavesLoopPinging ==
    <>[](runOutcome = "returned") => []<>(hpc = "ping")

(***************************************************************************)
(* Further claims about ProtocolParser.                                    *)
(***************************************************************************)
\* str.rstrip("\x00"): the trailing null bytes removed
RECURSIVE rstrip_nul(_)
rstrip_nul(name) ==
    IF name # <<>> /\ name[Len(name)] = 0
    THEN rstrip_nul(Slice(name, 1, Len(name) - 1))
    ELSE name

\* C15 (ParserSpec): the name of every packet delivered is the name field
\* of its record without the null bytes that pad it to six bytes.
C15_NameWithoutPadding ==
    \A i \in 1..Len(delivered) :
        With(cobs_decode(delivered[i].frame), LAMBDA dec :
            delivered[i].packet.name = rstrip_nul(Slice(dec.data, 1, 6)))

(***************************************************************************)
(* Claims about the reader streaming into the parser (LinkSpec).           *)
(***************************************************************************)
\* C17 (LinkSpec): no exception leaves run, and when the add_data call
\* made for a chunk read from the port ends with an exception, port and
\* device stay as they are and the reader is in its reading loop again,
\* about to read from the same handle.
C17_ListenerFailureContained ==
    /\ [](rpc # "crashed")
    /\ [][rpc = "reading" /\ rpc' # "find" /\ outcome' # "returned"
            /\ serialListener # "None"
            => /\ rpc' = "reading"
               /\ port' = port /\ port # <<>>
               /\ device' = device]_vars

\* C17 witness: two valid frames were read from a port that was never
\* closed, add_data raised for the last one (the parser's listener is not
\* a ProtocolListener), and the reader is reading on.
C17_Witness ==
    /\ rpc = "reading"
    /\ outcome = "AttributeError"
    /\ fed = StreamOf(<<1, 2>>)
    /\ closed = <<>>
    /\ port # <<>>

(***************************************************************************)
(* Claims about the parser fed chunk by chunk (ChunkSpec).                 *)
(***************************************************************************)
\* C18 (ChunkSpec): when no chunk holds more than one delimiter, the buffer
\* holds no delimiter after an add_data call, and a call passes at most
\* one packet to the listener.
C18_NoFrameLeftWaiting ==
    /\ [](~Contains(buffer, Delimiter))
    /\ [][Len(delivered') <= Len(delivered) + 1]_vars

\* C18 witness: one chunk ended a frame and began the next: the packet of
\* the first was delivered and the bytes of the second wait in the buffer.
C18_Witness ==
    /\ outcome = "returned"
    /\ Len(delivered) = 1
    /\ buffer # <<>>
    /\ fed = (Frame1 \o <<Delimiter>>) \o buffer

(***************************************************************************)
(* Further claims about InfluxWriter.                                      *)
(***************************************************************************)
\* C19 (OutageSpec): the queue, the pending batch, the batches written and
\* the batches discarded hold every Measurement accepted so far, each of
\* them once: together they have as many entries as there are Measurements
\* accepted, and every accepted Measurement is among them.
C19_EachMeasurementInOnePlace ==
    LET written == Flatten(writes)
        lost    == Flatten(discarded)
    IN  /\ Len(queue) + Len(points) + Len(written) + Len(lost) = accepted
        /\ Elements(queue) \cup Elements(points) \cup Elements(written)
              \cup Elements(lost) = 1..accepted

\* C19 witness: a batch was discarded, a later one written, and a
\* Measurement accepted after that is in the pending batch.
C19_Witness ==
    /\ discarded # <<>>
    /\ writes # <<>>
    /\ points # <<>>
    /\ wpc = "get"
=============================================================================
